---- MODULE Spec2Model ----
(***************************************************************************)
(* Model of two leaf components of webviz-subsurface:                      *)
(*   - create_vectors_statistics_df (vector_statistics.py): per-date       *)
(*     statistics of simulation vectors over the realizations;             *)
(*   - the parameter-response callbacks of the RFT plotter                 *)
(*     (parameter_response_callbacks.py).                                  *)
(* Real numbers are kept exactly as fixed-point integers: a statistic s is *)
(* stored as s * Scale, a correlation coefficient c as c * 10.             *)
(***************************************************************************)
EXTENDS Integers, Sequences, FiniteSets, TLC

VARIABLES
    vectors_df,      \* argument of create_vectors_statistics_df
    statistics_df,   \* its result: "none" before the call, a DataFrame or an error
    datamodel,       \* the RftPlotterDataModel the callbacks close over
    ensemble_value,  \* PARAMRESP_ENSEMBLE value
    well_value,      \* PARAMRESP_WELL value
    date_options,    \* PARAMRESP_DATE options
    date_value,      \* PARAMRESP_DATE value
    zone_options,    \* PARAMRESP_ZONE options
    zone_value,      \* PARAMRESP_ZONE value
    param_value,     \* PARAMRESP_PARAM value
    corrtype_value,  \* PARAMRESP_CORRTYPE value
    call             \* the callback that ran last: its arguments and outcome

statsVars == <<vectors_df, statistics_df>>

dashVars == <<datamodel, ensemble_value, well_value, date_options, date_value,
              zone_options, zone_value, param_value, corrtype_value, call>>

vars == <<statsVars, dashVars>>

----------------------------------------------------------------------------
(* Bounds and representation                                               *)

\* Most rows a table may hold; they are spread over the dates in turn, one
\* realization after the other.
MaxRows == 4

\* numpy's not-a-number, kept apart from every number of the model.
NaN == -1000

\* A (DATE, REAL) slot of the table that holds no row.
Absent == NaN - 1

Dates == {1, 2}
Values == {10, 20}
ColumnNames == {"DATE", "REAL", "V1", "V2"}

RECURSIVE Fact(_)
Fact(n) == IF n <= 1 THEN 1 ELSE n * Fact(n - 1)

\* Denominator of the fixed-point statistics: tenths (the percentiles 10, 50,
\* 90 interpolate in tenths of a rank) of 1/n for every group size n.
Scale == 10 * Fact(MaxRows)

Range(s) == {s[i] : i \in DOMAIN s}

RECURSIVE SetToSeq(_)
SetToSeq(S) ==
    IF S = {} THEN <<>>
    ELSE LET x == CHOOSE y \in S : TRUE IN <<x>> \o SetToSeq(S \ {x})

RECURSIVE SeqSum(_)
SeqSum(s) == IF Len(s) = 0 THEN 0 ELSE Head(s) + SeqSum(Tail(s))

SeqMin(s) == CHOOSE a \in Range(s) : \A b \in Range(s) : a <= b
SeqMax(s) == CHOOSE a \in Range(s) : \A b \in Range(s) : a >= b

----------------------------------------------------------------------------
(* vector_statistics.py                                                    *)

\* list.index: position of the first occurrence (0 when absent, where
\* Python raises ValueError).
ListIndex(lst, x) ==
    IF x \in Range(lst)
    THEN CHOOSE i \in DOMAIN lst : lst[i] = x /\ \A j \in 1..(i - 1) : lst[j] # x
    ELSE 0

\* Mutation: plain set difference where the code takes the symmetric one.
SetDifference(A, B) == A \ B

\* set(columns_list) ^ set(["DATE", "REAL"])
SymmetricDifference(A, B) == (A \ B) \cup (B \ A)

\* The key function columns_list.index raises ValueError on a name that is
\* not a column; sorted() calls it on every element of the set.
VectorNamesRaises(columns_list) ==
    \E n \in SymmetricDifference(Range(columns_list), {"DATE", "REAL"}) :
        n \notin Range(columns_list)

\* Mutation: the set's elements without the sort by column position.
vector_names_unsorted(columns_list) ==
    SetToSeq(SymmetricDifference(Range(columns_list), {"DATE", "REAL"}))

\* sorted(set(columns_list) ^ set(["DATE", "REAL"]), key=columns_list.index)
vector_names(columns_list) ==
    SortSeq(SetToSeq(SymmetricDifference(Range(columns_list), {"DATE", "REAL"})),
            LAMBDA a, b : ListIndex(columns_list, a) < ListIndex(columns_list, b))

\* The values left once the missing ones are dropped (the nan* functions).
DropNaN(x) == SelectSeq(x, LAMBDA a : a # NaN)

\* Mutation: np.mean, which does not skip the missing values.
mean_with_nan(x) ==
    IF NaN \in Range(x) \/ Len(x) = 0 THEN NaN ELSE (SeqSum(x) * Scale) \div Len(x)

nanmean(x) ==
    LET xs == DropNaN(x)
    IN  IF Len(xs) = 0 THEN NaN ELSE (SeqSum(xs) * Scale) \div Len(xs)

nanmin(x) ==
    LET xs == DropNaN(x)
    IN  IF Len(xs) = 0 THEN NaN ELSE SeqMin(xs) * Scale

nanmax(x) ==
    LET xs == DropNaN(x)
    IN  IF Len(xs) = 0 THEN NaN ELSE SeqMax(xs) * Scale

\* np.nanpercentile(x, q), default method "linear": the virtual index
\* q/100 * (n-1) into the sorted values, interpolated between its neighbours.
nanpercentile(x, q) ==
    LET xs   == SortSeq(DropNaN(x), LAMBDA a, b : a < b)
        n    == Len(xs)
        pos  == q * (n - 1)
        lo   == pos \div 100
        frac == pos % 100
        hi   == IF lo + 1 > n - 1 THEN n - 1 ELSE lo + 1
    IN  IF n = 0 THEN NaN
        ELSE xs[lo + 1] * Scale + ((xs[hi + 1] - xs[lo + 1]) * frac * Scale) \div 100

\* Mutation: P10 computed as the 10th percentile (no inversion).
p10_q10(x) == nanpercentile(x, 10)

p10(x) == nanpercentile(x, 90)

p90(x) == nanpercentile(x, 10)

p50(x) == nanpercentile(x, 50)

\* .agg([np.nanmean, np.nanmin, np.nanmax, p10, p90, p50]): the functions in
\* call order, under the names pandas gives the result columns.
AggFuncs == <<"nanmean", "nanmin", "nanmax", "p10", "p90", "p50">>

ApplyAgg(name, x) ==
    CASE name = "nanmean" -> nanmean(x)
      [] name = "nanmin"  -> nanmin(x)
      [] name = "nanmax"  -> nanmax(x)
      [] name = "p10"     -> p10(x)
      [] name = "p90"     -> p90(x)
      [] name = "p50"     -> p50(x)

\* Mutation: "nanmin" labelled MAX.
col_stat_label_map_dup(name) ==
    CASE name = "nanmin"  -> "MAX"
      [] name = "nanmax"  -> "MAX"
      [] name = "nanmean" -> "MEAN"
      [] name = "p10"     -> "P10"
      [] name = "p90"     -> "P90"
      [] name = "p50"     -> "P50"
      [] OTHER            -> name

\* col_stat_label_map: the StatisticsOptions member each column is renamed to.
col_stat_label_map(name) ==
    CASE name = "nanmin"  -> "MIN"
      [] name = "nanmax"  -> "MAX"
      [] name = "nanmean" -> "MEAN"
      [] name = "p10"     -> "P10"
      [] name = "p90"     -> "P90"
      [] name = "p50"     -> "P50"
      [] OTHER            -> name

\* .groupby(["DATE"]): the group keys, sorted ascending.
GroupKeys(rows) ==
    SortSeq(SetToSeq({rows[i]["DATE"] : i \in DOMAIN rows}), LAMBDA a, b : a < b)

\* The values of one vector in the rows of one group, in row order.
GroupValues(rows, date, vector) ==
    LET grp == SelectSeq(rows, LAMBDA r : r["DATE"] = date)
    IN  [i \in 1..Len(grp) |-> grp[i][vector]]

NoFrame(kind) == [kind |-> kind, columns |-> <<>>, data |-> <<>>]

\* vectors_df[["DATE"] + vector_names].groupby(["DATE"]).agg([...])
\*     .reset_index(level=["DATE"], col_level=0), then the rename of level 1.
\* columns[j] is the two-level label of column j, data[i][j] the cell of row i.
GroupAggRename(rows, names) ==
    LET keys    == GroupKeys(rows)
        nstat   == Len(AggFuncs)
        vecOf(j)  == names[((j - 2) \div nstat) + 1]
        funcOf(j) == AggFuncs[((j - 2) % nstat) + 1]
        ncol    == 1 + Len(names) * nstat
    IN  [kind    |-> "DataFrame",
         columns |-> [j \in 1..ncol |->
                        IF j = 1 THEN <<"DATE", "">>
                        ELSE <<vecOf(j), col_stat_label_map(funcOf(j))>>],
         data    |-> [i \in 1..Len(keys) |->
                        [j \in 1..ncol |->
                            IF j = 1 THEN keys[i]
                            ELSE ApplyAgg(funcOf(j),
                                          GroupValues(rows, keys[i], vecOf(j)))]]]

\* The whole function.  Selecting a column the table lacks raises KeyError;
\* a list of aggregations over no column at all makes pandas raise
\* ValueError (nothing to aggregate).
create_vectors_statistics_df(df) ==
    IF VectorNamesRaises(df.columns) THEN NoFrame("ValueError")
    ELSE LET names == vector_names(df.columns)
         IN  IF ~(Range(<<"DATE">> \o names) \subseteq Range(df.columns))
             THEN NoFrame("KeyError")
             ELSE IF Len(names) = 0 THEN NoFrame("ValueError")
             ELSE GroupAggRename(df.rows, names)

----------------------------------------------------------------------------
(* parameter_response_callbacks.py                                         *)

\* Longest list of clicked points a click event carries.
MaxPoints == 1

None == "None"

\* The data model the plugin was started with: the dates and zones of each
\* well, the non-constant parameters of each ensemble, the simulated RFTs.
DataModel ==
    [wells  |-> [w \in {"W1", "W2"} |->
                    IF w = "W1"
                    THEN [dates |-> <<"D1", "D2">>, zones |-> <<"Z1", "Z2">>]
                    ELSE [dates |-> <<"D2">>, zones |-> <<"Z2", "Z3">>]],
     params |-> [e \in {"E1", "E2", "E3"} |->
                    CASE e = "E1" -> <<"A", "B", "C">>
                      [] e = "E2" -> <<>>
                      [] OTHER    -> <<"C", "A">>],
     rfts   |-> <<"W1 D1 Z1", "W2 D2 Z2">>]

Wells == {"W1", "W2"}
Ensembles == {"E1", "E2", "E3"}
Corrtypes == {"sim_vs_param", "param_vs_sim"}
ParamNames == {"A", "B", "C"}

\* Correlation coefficients in tenths; NaN for a column without variance.
Coefs == {-9, 3, 9, NaN}

Abs(c) == IF c < 0 THEN 0 - c ELSE c

\* A click event of the bar chart: absent, or a dict that may hold "points",
\* a non-empty list of dicts that may hold "y".
Points == {[has_y |-> TRUE, y |-> p] : p \in ParamNames}
              \cup {[has_y |-> FALSE, y |-> None]}

ClickData ==
    {[present |-> FALSE, has_points |-> FALSE, points |-> <<>>],
     [present |-> TRUE, has_points |-> FALSE, points |-> <<>>]}
    \cup {[present |-> TRUE, has_points |-> TRUE, points |-> ps] :
            ps \in UNION {[1..n -> Points] : n \in 1..MaxPoints}}

\* Mutation: the correlation type is not looked at.
PreventsUpdateClickOnly(corr_vector_clickdata, corrtype) ==
    ~corr_vector_clickdata.present

\* corr_vector_clickdata is None or corrtype != "sim_vs_param"
PreventsUpdate(corr_vector_clickdata, corrtype) ==
    ~corr_vector_clickdata.present \/ corrtype # "sim_vs_param"

\* corr_vector_clickdata.get("points", [{}])[0].get("y")
ClickedY(corr_vector_clickdata) ==
    LET points == IF corr_vector_clickdata.has_points
                  THEN corr_vector_clickdata.points
                  ELSE <<[has_y |-> FALSE, y |-> None]>>
    IN  IF points[1].has_y THEN points[1].y ELSE None

_update_parameter_selected ==
    \E cd \in ClickData :
        /\ call' = [cb |-> "_update_parameter_selected",
                    clickdata |-> cd,
                    raised |-> IF PreventsUpdate(cd, corrtype_value)
                               THEN "PreventUpdate" ELSE "none"]
        /\ param_value' = IF PreventsUpdate(cd, corrtype_value)
                          THEN param_value ELSE ClickedY(cd)
        /\ UNCHANGED <<datamodel, ensemble_value, well_value, date_options,
                       date_value, zone_options, zone_value, corrtype_value>>
        /\ UNCHANGED statsVars

\* datamodel.well_dates_and_zones(well)
well_dates_and_zones(well) == datamodel.wells[well]

\* Mutation: the current zone is never kept.
NewZoneAlwaysFirst(zone_state, zones_in_well) == zones_in_well[1]

\* zone_state if zone_state in zones_in_well else zones_in_well[0]
NewZone(zone_state, zones_in_well) ==
    IF zone_state \in Range(zones_in_well) THEN zone_state ELSE zones_in_well[1]

_update_date_and_zone ==
    LET dates_in_well == well_dates_and_zones(well_value).dates
        zones_in_well == well_dates_and_zones(well_value).zones
    IN  /\ date_options' = dates_in_well
        /\ date_value' = dates_in_well[1]
        /\ zone_options' = zones_in_well
        /\ zone_value' = NewZone(zone_value, zones_in_well)
        /\ call' = [cb |-> "_update_date_and_zone", well |-> well_value,
                    zone_state |-> zone_value]
        /\ UNCHANGED <<datamodel, ensemble_value, well_value, param_value,
                       corrtype_value>>
        /\ UNCHANGED statsVars

\* f"{well} {date} {zone}"
CurrentKey(well, date, zone) == well \o " " \o date \o " " \o zone

\* What create_rft_and_param_pivot_table lists beside the table: the
\* ensemble's parameters, and its simulated RFTs (all of them when
\* keep_all_rfts, else the current one alone).
PivotParams(ensemble) == datamodel.params[ensemble]

PivotRfts(current_key, keep_all_rfts) ==
    IF keep_all_rfts
    THEN SelectSeq(datamodel.rfts, LAMBDA k : k # current_key) \o <<current_key>>
    ELSE <<current_key>>

\* correlate(df[columns], response): the coefficient of every column but the
\* response against the response, in column order.  coef gives the
\* coefficients the table's data yields.
correlate(columns, response, coef) ==
    LET cands == SelectSeq(columns, LAMBDA c : c # response)
    IN  [response |-> response,
         items    |-> [i \in 1..Len(cands) |-> <<cands[i], coef[cands[i]]>>]]

NoSeries == [response |-> "", items |-> <<>>]

\* Mutation: idxmax of the signed coefficients.
IdxmaxSigned(series) ==
    LET it == series.items
        ok == {i \in DOMAIN it : it[i][2] # NaN}
    IN  IF ok = {} THEN "nan"
        ELSE it[CHOOSE i \in ok :
                    /\ \A j \in ok : it[j][2] <= it[i][2]
                    /\ \A j \in ok : j < i => it[j][2] < it[i][2]][1]

\* corrseries.abs().idxmax(): the label of the first largest absolute value,
\* missing values skipped; nan when every value is missing.
AbsIdxmax(series) ==
    LET it == series.items
        ok == {i \in DOMAIN it : it[i][2] # NaN}
    IN  IF ok = {} THEN "nan"
        ELSE it[CHOOSE i \in ok :
                    /\ \A j \in ok : Abs(it[j][2]) <= Abs(it[i][2])
                    /\ \A j \in ok : j < i => Abs(it[j][2]) < Abs(it[i][2])][1]

NoMessage == ""

\* Mutation: the empty parameter list is tested before the parameter.
GuardMessageSwapped(df_is_none, param, ens_params) ==
    IF df_is_none THEN "No data matching the given filter criterias."
    ELSE IF Len(ens_params) = 0
         THEN "The selected ensemble has no non-constant parameters."
    ELSE IF param # None /\ param \notin Range(ens_params)
         THEN "The selected parameter not valid for selected ensemble."
    ELSE NoMessage

\* The three guards, in the order the code tests them.
GuardMessage(df_is_none, param, ens_params) ==
    IF df_is_none THEN "No data matching the given filter criterias."
    ELSE IF param # None /\ param \notin Range(ens_params)
         THEN "The selected parameter not valid for selected ensemble."
    ELSE IF Len(ens_params) = 0
         THEN "The selected ensemble has no non-constant parameters."
    ELSE NoMessage

\* The locals before the two branches: nothing is bound but param.
UnboundLocals(param) ==
    [bound |-> FALSE, param |-> param, keyseries |-> NoSeries,
     corrseries |-> NoSeries, corr_title |-> "", scatter_x |-> "",
     scatter_y |-> "", highlight_bar |-> ""]

\* if corrtype == "sim_vs_param" or param is None: ...
SimVsParamBranch(loc, corrtype, current_key, ens_params, keycoef) ==
    IF corrtype = "sim_vs_param" \/ loc.param = None
    THEN LET corrseries == correlate(ens_params \o <<current_key>>, current_key, keycoef)
             param == IF loc.param # None THEN loc.param ELSE AbsIdxmax(corrseries)
         IN  [bound |-> TRUE, param |-> param, keyseries |-> corrseries,
              corrseries |-> corrseries,
              corr_title |-> current_key \o " vs parameters",
              scatter_x |-> param, scatter_y |-> current_key,
              highlight_bar |-> param]
    ELSE loc

\* Mutation: the parameter's bar is highlighted in both correlation types.
ParamVsSimBranchHighlightParam(loc, corrtype, current_key, ens_rfts, rftcoef) ==
    IF corrtype = "param_vs_sim"
    THEN [loc EXCEPT !.bound = TRUE,
                     !.corrseries = correlate(ens_rfts \o <<loc.param>>, loc.param, rftcoef),
                     !.corr_title = loc.param \o " vs simulated RFTs",
                     !.scatter_x = loc.param,
                     !.scatter_y = current_key,
                     !.highlight_bar = loc.param]
    ELSE loc

\* if corrtype == "param_vs_sim": ...
ParamVsSimBranch(loc, corrtype, current_key, ens_rfts, rftcoef) ==
    IF corrtype = "param_vs_sim"
    THEN [loc EXCEPT !.bound = TRUE,
                     !.corrseries = correlate(ens_rfts \o <<loc.param>>, loc.param, rftcoef),
                     !.corr_title = loc.param \o " vs simulated RFTs",
                     !.scatter_x = loc.param,
                     !.scatter_y = current_key,
                     !.highlight_bar = current_key]
    ELSE loc

NoChart == [series |-> NoSeries, title |-> "", highlight |-> ""]

\* What the callback returns or raises, from the guards to the return.
\* keycoef: the coefficient of each parameter against the current key;
\* othercoef: the coefficient of another simulated RFT against a parameter.
ParamrespGraphs(ensemble, well, date, zone, param, corrtype, df_is_none, keycoef, othercoef) ==
    LET current_key == CurrentKey(well, date, zone)
        ens_params  == PivotParams(ensemble)
        ens_rfts    == PivotRfts(current_key, corrtype = "param_vs_sim")
        message     == GuardMessage(df_is_none, param, ens_params)
        loc1        == SimVsParamBranch(UnboundLocals(param), corrtype, current_key,
                                        ens_params, keycoef)
        \* a parameter that is no column of the table: df[...] raises KeyError
        known       == loc1.param \in Range(ens_params)
        rftcoef     == [k \in Range(ens_rfts) |->
                           IF k = current_key /\ known THEN keycoef[loc1.param]
                           ELSE othercoef]
        loc2        == IF known
                       THEN ParamVsSimBranch(loc1, corrtype, current_key, ens_rfts, rftcoef)
                       ELSE loc1
    IN  IF message # NoMessage
        THEN [kind |-> "message", children |-> <<message, message, message>>,
              raised |-> "none", keyseries |-> NoSeries, corrfig |-> NoChart,
              param |-> param]
        ELSE IF ~loc1.bound /\ corrtype # "param_vs_sim"
        THEN [kind |-> "raised", children |-> <<>>, raised |-> "UnboundLocalError",
              keyseries |-> loc1.keyseries, corrfig |-> NoChart, param |-> loc1.param]
        ELSE IF ~known
        THEN [kind |-> "raised", children |-> <<>>, raised |-> "KeyError",
              keyseries |-> loc1.keyseries, corrfig |-> NoChart, param |-> loc1.param]
        ELSE [kind |-> "graphs", children |-> <<"Graph", "Graph", "Graph">>,
              raised |-> "none", keyseries |-> loc2.keyseries,
              corrfig |-> [series |-> loc2.corrseries, title |-> loc2.corr_title,
                           highlight |-> loc2.highlight_bar],
              param |-> loc2.param]

\* The coefficients the call can read: none when a guard returns first; of
\* the parameters against the current key, all when the parameter is chosen
\* by them and the selected parameter's alone otherwise; the other RFT's
\* only under "param_vs_sim".
KeyCoefs(df_is_none) ==
    LET ens_params == PivotParams(ensemble_value)
    IN  IF GuardMessage(df_is_none, param_value, ens_params) # NoMessage
        THEN {[p \in Range(ens_params) |-> NaN]}
        ELSE IF corrtype_value = "sim_vs_param" \/ param_value = None
        THEN [Range(ens_params) -> Coefs]
        ELSE {[p \in Range(ens_params) |-> IF p = param_value THEN c ELSE NaN] :
                 c \in Coefs}

OtherCoefs(df_is_none) ==
    IF /\ GuardMessage(df_is_none, param_value, PivotParams(ensemble_value)) = NoMessage
       /\ corrtype_value = "param_vs_sim"
    THEN Coefs
    ELSE {NaN}

_update_paramresp_graphs ==
    \E df_is_none \in BOOLEAN :
      \E keycoef \in KeyCoefs(df_is_none), othercoef \in OtherCoefs(df_is_none) :
        /\ call' = [cb |-> "_update_paramresp_graphs",
                    ensemble |-> ensemble_value,
                    current_key |-> CurrentKey(well_value, date_value, zone_value),
                    param |-> param_value,
                    corrtype |-> corrtype_value,
                    df_is_none |-> df_is_none,
                    ret |-> ParamrespGraphs(ensemble_value, well_value, date_value,
                                            zone_value, param_value, corrtype_value,
                                            df_is_none, keycoef, othercoef)]
        /\ UNCHANGED <<datamodel, ensemble_value, well_value, date_options,
                       date_value, zone_options, zone_value, param_value,
                       corrtype_value>>
        /\ UNCHANGED statsVars

\* The user's selections in the dropdowns and radio items the callbacks read.
NoCall == [cb |-> "none"]

SelectEnsemble ==
    /\ \E e \in Ensembles : ensemble_value' = e
    /\ call' = NoCall
    /\ UNCHANGED <<datamodel, well_value, date_options, date_value, zone_options,
                   zone_value, param_value, corrtype_value>>
    /\ UNCHANGED statsVars

SelectWell ==
    /\ \E w \in Wells : well_value' = w
    /\ call' = NoCall
    /\ UNCHANGED <<datamodel, ensemble_value, date_options, date_value,
                   zone_options, zone_value, param_value, corrtype_value>>
    /\ UNCHANGED statsVars

SelectDate ==
    /\ \E d \in Range(date_options) : date_value' = d
    /\ call' = NoCall
    /\ UNCHANGED <<datamodel, ensemble_value, well_value, date_options,
                   zone_options, zone_value, param_value, corrtype_value>>
    /\ UNCHANGED statsVars

SelectZone ==
    /\ \E z \in Range(zone_options) : zone_value' = z
    /\ call' = NoCall
    /\ UNCHANGED <<datamodel, ensemble_value, well_value, date_options,
                   date_value, zone_options, param_value, corrtype_value>>
    /\ UNCHANGED statsVars

SelectParam ==
    /\ \E p \in ParamNames \cup {None} : param_value' = p
    /\ call' = NoCall
    /\ UNCHANGED <<datamodel, ensemble_value, well_value, date_options,
                   date_value, zone_options, zone_value, corrtype_value>>
    /\ UNCHANGED statsVars

SelectCorrtype ==
    /\ \E c \in Corrtypes : corrtype_value' = c
    /\ call' = NoCall
    /\ UNCHANGED <<datamodel, ensemble_value, well_value, date_options,
                   date_value, zone_options, zone_value, param_value>>
    /\ UNCHANGED statsVars

\* The layout as served: the first well with its first date and zone, no
\* parameter selected.
InitDash(dm) ==
    /\ datamodel = dm
    /\ ensemble_value = "E1"
    /\ well_value = "W1"
    /\ date_options = dm.wells["W1"].dates
    /\ date_value = dm.wells["W1"].dates[1]
    /\ zone_options = dm.wells["W1"].zones
    /\ zone_value = dm.wells["W1"].zones[1]
    /\ param_value = None
    /\ corrtype_value = "sim_vs_param"
    /\ call = NoCall

----------------------------------------------------------------------------
(* Input tables                                                            *)

\* Every list of distinct column names.
ColumnLists ==
    UNION {{s \in [1..n -> ColumnNames] : \A i, j \in 1..n : i # j => s[i] # s[j]}
           : n \in 0..Cardinality(ColumnNames)}

\* The second vector holds other values than the first in the same row.
OtherValue(v) == CASE v = 10 -> 20 [] v = 20 -> NaN [] OTHER -> 10

SlotDate(k) == ((k - 1) % Cardinality(Dates)) + 1
SlotReal(k) == ((k - 1) \div Cardinality(Dates)) + 1
NumSlots == MaxRows

CellValue(c, k, base) ==
    CASE c = "DATE" -> SlotDate(k)
      [] c = "REAL" -> SlotReal(k)
      [] c = "V1"   -> base[k]
      [] OTHER      -> OtherValue(base[k])

\* The table with the given columns whose rows are the slots base fills;
\* at most one row per (DATE, REAL).
Table(cols, base) ==
    LET all == [k \in 1..NumSlots |-> [c \in Range(cols) |-> CellValue(c, k, base)]]
        idx == SelectSeq([k \in 1..NumSlots |-> k], LAMBDA k : base[k] # Absent)
    IN  [columns |-> cols, rows |-> [i \in 1..Len(idx) |-> all[idx[i]]]]

Bases == {b \in [1..NumSlots -> Values \cup {NaN, Absent}] :
             \E k \in 1..NumSlots : b[k] # Absent}

InitStats ==
    /\ \E cols \in ColumnLists, base \in Bases : vectors_df = Table(cols, base)
    /\ statistics_df = NoFrame("none")
    /\ InitDash(DataModel)

CreateVectorsStatisticsDf ==
    /\ statistics_df.kind = "none"
    /\ statistics_df' = create_vectors_statistics_df(vectors_df)
    /\ UNCHANGED vectors_df
    /\ UNCHANGED dashVars

NextStats == CreateVectorsStatisticsDf

SpecStats == InitStats /\ [][NextStats]_vars

\* The callbacks of the parameter-response tab; no statistics are computed.
Init ==
    /\ InitDash(DataModel)
    /\ vectors_df = [columns |-> <<>>, rows |-> <<>>]
    /\ statistics_df = NoFrame("none")

Next ==
    \/ _update_parameter_selected
    \/ _update_date_and_zone
    \/ _update_paramresp_graphs
    \/ SelectEnsemble
    \/ SelectWell
    \/ SelectDate
    \/ SelectZone
    \/ SelectParam
    \/ SelectCorrtype

Spec == Init /\ [][Next]_vars

----------------------------------------------------------------------------
(* Properties of create_vectors_statistics_df                              *)

Returned == statistics_df.kind = "DataFrame"

\* The vector columns of the input: every column but DATE and REAL.
InputVectors == Range(vectors_df.columns) \ {"DATE", "REAL"}

InputDates == {vectors_df.rows[i]["DATE"] : i \in DOMAIN vectors_df.rows}

\* The rows of the input at date d whose value for vector v is not missing.
NonMissing(d, v) ==
    {i \in DOMAIN vectors_df.rows :
        vectors_df.rows[i]["DATE"] = d /\ vectors_df.rows[i][v] # NaN}

\* The cells the table holds for statistic stat of vector v at date d.
CellsOf(d, v, stat) ==
    {statistics_df.data[ij[1]][ij[2]] :
        ij \in {p \in (DOMAIN statistics_df.data) \X (DOMAIN statistics_df.columns) :
                   /\ p[2] > 1
                   /\ statistics_df.data[p[1]][1] = d
                   /\ statistics_df.columns[p[2]] = <<v, stat>>}}

\* The table reports val (fixed-point) for statistic stat of vector v at date d.
Reports(d, v, stat, val) == CellsOf(d, v, stat) = {val}

\* The k-th smallest value of vector v over the rows I, found by counting.
OrderStat(I, v, k) ==
    CHOOSE x \in {vectors_df.rows[i][v] : i \in I} :
        /\ Cardinality({i \in I : vectors_df.rows[i][v] < x}) < k
        /\ k <= Cardinality({i \in I : vectors_df.rows[i][v] <= x})

\* val is the q-th percentile (linear interpolation between closest ranks) of
\* vector v over the rows I; not-a-number when I is empty.
IsPercentile(I, v, q, val) ==
    LET n == Cardinality(I)
    IN  IF n = 0 THEN val = NaN
        ELSE \E k \in 1..n :
                /\ 100 * (k - 1) <= q * (n - 1)
                /\ q * (n - 1) <= 100 * k
                /\ LET a == OrderStat(I, v, k)
                       b == OrderStat(I, v, IF k < n THEN k + 1 ELSE k)
                       w == q * (n - 1) - 100 * (k - 1)
                   IN  100 * val = Scale * (100 * a + w * (b - a))

\* The non-missing values of v at d are exactly the two values 10 and 20.
IsTenTwenty(d, v) ==
    /\ Cardinality(NonMissing(d, v)) = 2
    /\ {vectors_df.rows[i][v] : i \in NonMissing(d, v)} = {10, 20}

\* C1: P10 is the 90th percentile and P90 the 10th percentile of the vector's
\* non-missing values at the date (linear interpolation); values 10 and 20
\* give MEAN=15, MIN=10, MAX=20, P50=15, P10=19, P90=11.
C1_P10IsNinetiethPercentile ==
    Returned =>
        \A d \in InputDates, v \in InputVectors :
            /\ \E hi \in CellsOf(d, v, "P10") :
                  Reports(d, v, "P10", hi) /\ IsPercentile(NonMissing(d, v), v, 90, hi)
            /\ \E lo \in CellsOf(d, v, "P90") :
                  Reports(d, v, "P90", lo) /\ IsPercentile(NonMissing(d, v), v, 10, lo)
            /\ IsTenTwenty(d, v) =>
                  /\ Reports(d, v, "MEAN", 15 * Scale)
                  /\ Reports(d, v, "MIN", 10 * Scale)
                  /\ Reports(d, v, "MAX", 20 * Scale)
                  /\ Reports(d, v, "P50", 15 * Scale)
                  /\ Reports(d, v, "P10", 19 * Scale)
                  /\ Reports(d, v, "P90", 11 * Scale)

C1_Witness ==
    /\ Returned
    /\ vectors_df.columns = <<"DATE", "REAL", "V1">>
    /\ IsTenTwenty(1, "V1")
    /\ Reports(1, "V1", "P10", 19 * Scale)
    /\ Reports(1, "V1", "P90", 11 * Scale)

StatisticsOptions == {"MEAN", "MIN", "MAX", "P10", "P90", "P50"}

\* C2: the returned table has exactly one row per distinct DATE of the input
\* and, for each vector, exactly the six statistic columns, each once.
C2_OneRowPerDateSixColumnsPerVector ==
    Returned =>
        /\ Len(statistics_df.data) = Cardinality(InputDates)
        /\ \A d \in InputDates :
              Cardinality({i \in DOMAIN statistics_df.data :
                              statistics_df.data[i][1] = d}) = 1
        /\ \A v \in InputVectors :
              /\ Cardinality({j \in DOMAIN statistics_df.columns :
                                 j > 1 /\ statistics_df.columns[j][1] = v}) = 6
              /\ \A stat \in StatisticsOptions :
                    Cardinality({j \in DOMAIN statistics_df.columns :
                                    j > 1 /\ statistics_df.columns[j] = <<v, stat>>}) = 1

C2_Witness ==
    /\ Returned
    /\ Cardinality(InputDates) = 2
    /\ Len(vectors_df.rows) > 2
    /\ Cardinality(InputVectors) = 2
    /\ Len(statistics_df.data) = 2
    /\ Len(statistics_df.columns) = 13

\* C4: the call fails with an input-shape error and no partial table when the
\* input lacks DATE, lacks REAL, or has no vector column besides them.
C4_ShapeErrors ==
    (/\ statistics_df.kind # "none"
     /\ \/ "DATE" \notin Range(vectors_df.columns)
        \/ "REAL" \notin Range(vectors_df.columns)
        \/ InputVectors = {})
    => /\ statistics_df.kind = "ValueError"
       /\ statistics_df.columns = <<>>
       /\ statistics_df.data = <<>>

C4_Witness ==
    /\ statistics_df.kind = "ValueError"
    /\ vectors_df.columns = <<"DATE", "V1">>
    /\ Len(vectors_df.rows) > 0

\* C5: the outer-level vector names of the returned table are the input's
\* columns other than DATE and REAL, each once, in the input's column order.
C5_VectorNamesInColumnOrder ==
    Returned =>
        LET expected == SelectSeq(vectors_df.columns,
                                  LAMBDA c : c \notin {"DATE", "REAL"})
        IN  /\ {"DATE", "REAL"} \subseteq Range(vectors_df.columns)
            /\ Len(statistics_df.columns) = 1 + 6 * Len(expected)
            /\ statistics_df.columns[1][1] = "DATE"
            /\ \A j \in 2..Len(statistics_df.columns) :
                  statistics_df.columns[j][1] = expected[((j - 2) \div 6) + 1]

C5_Witness ==
    /\ Returned
    /\ vectors_df.columns = <<"V2", "DATE", "V1", "REAL">>
    /\ statistics_df.columns[2][1] = "V2"
    /\ statistics_df.columns[8][1] = "V1"

\* C6: where a vector has exactly one non-missing value x at a date, all six
\* statistics of the vector at that date equal x.
C6_SingleValueGroup ==
    Returned =>
        \A d \in InputDates, v \in InputVectors :
            Cardinality(NonMissing(d, v)) = 1 =>
                LET x == vectors_df.rows[CHOOSE i \in NonMissing(d, v) : TRUE][v]
                IN  \A stat \in StatisticsOptions : Reports(d, v, stat, x * Scale)

C6_Witness ==
    /\ Returned
    /\ \E d \in InputDates :
          /\ Cardinality({i \in DOMAIN vectors_df.rows :
                             vectors_df.rows[i]["DATE"] = d}) = 1
          /\ "V1" \in InputVectors
          /\ NonMissing(d, "V1") # {}
          /\ \A stat \in StatisticsOptions :
                Reports(d, "V1", stat, 20 * Scale)

----------------------------------------------------------------------------
(* Properties of the parameter-response callbacks                          *)

GraphsCalled == call.cb = "_update_paramresp_graphs"

\* The labels of a correlation series, in order.
Labels(series) == [i \in DOMAIN series.items |-> series.items[i][1]]

\* C3: called with param = None and past the guards, the callback selects
\* the candidate of the series against the current key with the largest
\* absolute coefficient, the first in column order among equals;
\* {A: 0.3, B: -0.9, C: 0.9} selects B.
C3_DefaultParameterIsFirstLargestAbs ==
    (GraphsCalled /\ call.param = None /\ call.ret.kind = "graphs") =>
        LET it == call.ret.keyseries.items
        IN  /\ call.ret.keyseries.response = call.current_key
            /\ Labels(call.ret.keyseries) = datamodel.params[call.ensemble]
            /\ \E i \in DOMAIN it :
                  /\ it[i][1] = call.ret.param
                  /\ it[i][2] # NaN
                  /\ \A j \in DOMAIN it :
                        it[j][2] # NaN =>
                            /\ Abs(it[j][2]) <= Abs(it[i][2])
                            /\ j < i => Abs(it[j][2]) < Abs(it[i][2])
            /\ it = <<<<"A", 3>>, <<"B", -9>>, <<"C", 9>>>> => call.ret.param = "B"

C3_Witness ==
    /\ GraphsCalled
    /\ call.param = None
    /\ call.ret.kind = "graphs"
    /\ call.ret.keyseries.items = <<<<"A", 3>>, <<"B", -9>>, <<"C", 9>>>>
    /\ call.ret.param = "B"

\* C7: a run of _update_date_and_zone leaves a zone of the selected well
\* selected: the zone selected before when the well has it, the well's first
\* zone otherwise; and the well's first date.
C7_ZoneKeptOrFirst ==
    [][call'.cb = "_update_date_and_zone" =>
          LET zones == datamodel.wells[well_value'].zones
              dates == datamodel.wells[well_value'].dates
          IN  /\ zone_options' = zones
              /\ zone_value' \in Range(zone_options')
              /\ (zone_value \in Range(zones)) => zone_value' = zone_value
              /\ (zone_value \notin Range(zones)) => zone_value' = zones[1]
              /\ date_value' = dates[1]]_vars

C7_Witness ==
    /\ call.cb = "_update_date_and_zone"
    /\ well_value = "W1"
    /\ call.zone_state = "Z2"
    /\ zone_value = "Z2"
    /\ zone_options = <<"Z1", "Z2">>
    /\ date_value = "D1"

IsMessage(ret, message) ==
    /\ ret.kind = "message"
    /\ ret.children = <<message, message, message>>
    /\ ret.corrfig = NoChart

\* C8: no table gives the no-data message; else a given param outside the
\* ensemble's parameters gives the invalid-parameter message; else an empty
\* parameter list gives the no-parameters message; each three times, with
\* no chart built.
C8_GuardMessagesInOrder ==
    GraphsCalled =>
        LET ens_params == datamodel.params[call.ensemble]
            invalid    == call.param # None /\ call.param \notin Range(ens_params)
        IN  /\ call.df_is_none =>
                  IsMessage(call.ret, "No data matching the given filter criterias.")
            /\ (~call.df_is_none /\ invalid) =>
                  IsMessage(call.ret,
                            "The selected parameter not valid for selected ensemble.")
            /\ (~call.df_is_none /\ ~invalid /\ ens_params = <<>>) =>
                  IsMessage(call.ret,
                            "The selected ensemble has no non-constant parameters.")

C8_Witness ==
    /\ GraphsCalled
    /\ ~call.df_is_none
    /\ call.param = "A"
    /\ datamodel.params[call.ensemble] = <<>>
    /\ IsMessage(call.ret, "The selected parameter not valid for selected ensemble.")

C10_ChartBoundPerCorrtype ==
    (GraphsCalled /\ call.ret.kind # "message") =>
        LET r == call.ret
        IN  /\ r.raised # "UnboundLocalError"
            /\ r.param # None
            /\ (r.kind = "graphs" /\ call.corrtype = "sim_vs_param") =>
                  /\ r.corrfig.series.response = call.current_key
                  /\ Labels(r.corrfig.series) = datamodel.params[call.ensemble]
                  /\ r.corrfig.title = call.current_key \o " vs parameters"
                  /\ r.corrfig.highlight = r.param
                  /\ call.param # None => r.param = call.param
            /\ (r.kind = "graphs" /\ call.corrtype = "param_vs_sim") =>
                  /\ r.corrfig.series.response = r.param
                  /\ r.param \in Range(datamodel.params[call.ensemble])
                  /\ call.current_key \in Range(Labels(r.corrfig.series))
                  /\ Range(Labels(r.corrfig.series)) \cap ParamNames = {}
                  /\ r.corrfig.title = r.param \o " vs simulated RFTs"
                  /\ r.corrfig.highlight = call.current_key
                  /\ call.param # None => r.param = call.param

C10_Witness ==
    /\ GraphsCalled
    /\ call.param = None
    /\ call.corrtype = "param_vs_sim"
    /\ call.ret.kind = "graphs"
    /\ call.ret.param = "B"
    /\ call.ret.corrfig.series.response = "B"
    /\ call.ret.corrfig.highlight = call.current_key
    /\ Len(call.ret.corrfig.series.items) = 2

====
